---------------------------- MODULE Spec2Model ----------------------------
(***************************************************************************)
(* Model of src/integral_trends/src/main.py: the significance-masked trend *)
(* raster (lines 47-58) and the export-job poll loop (lines 68-81) of      *)
(* integral_trend, entered through run (lines 83-96).                      *)
(*                                                                         *)
(* Conventions.                                                            *)
(*  - An optional value (a dict key that may be missing, Python's None) is *)
(*    a sequence: <<>> when absent, <<v>> when present.                    *)
(*  - A raster is followed at one representative pixel.  A pixel value is  *)
(*    a record [valid, err, v]: valid = FALSE is a masked (missing) pixel, *)
(*    err = TRUE an expression the server cannot evaluate.                 *)
(*  - Slopes are fixed point, counted in ticks of 1e-7, so that the        *)
(*    negligibility threshold 0.000001 is 10 ticks.  The sentinel is kept  *)
(*    as its literal -99999; input slopes stay within MaxSlope ticks, so   *)
(*    no input slope coincides with it.                                    *)
(*  - Progress fractions are counted in hundredths.                        *)
(***************************************************************************)
EXTENDS Integers, Sequences, FiniteSets, TLC

VARIABLES
    params,         \* the request: ENV, EXECUTION_ID, year_start, year_end (optional keys)
    pixel,          \* the representative pixel of the collaborators' rasters: [stat, slope]
    geojson,        \* integral_trend's argument: the area of interest
    pc,             \* position of the program
    year_start,     \* integral_trend's argument
    year_end,       \* integral_trend's argument
    EXECUTION_ID,   \* integral_trend's argument (optional: None is <<>>)
    period,         \* local of integral_trend
    kendall,        \* local of integral_trend: the looked-up critical value
    export,         \* local of integral_trend: the export dictionary (optional)
    task_state,     \* local of integral_trend
    task_progress,  \* local of integral_trend
    remote,         \* the remote export job: [state, progress]
    calls,          \* the calls made so far on task, logger and sleep, in order
    result          \* what the invocation returned (optional)

vars == << params, pixel, geojson, pc, year_start, year_end, EXECUTION_ID, period, kendall,
           export, task_state, task_progress, remote, calls, result >>

----------------------------------------------------------------------------
(* Bounds of the model *)

\* largest year_end - year_start explored by the masking specification
MaxSpan == 41
\* largest |slope| of an input pixel, in ticks of 1e-7
MaxSlope == 30000
\* largest |statistic| of an input pixel beyond the largest table entry
StatMargin == 1
\* status queries answered while the remote job is still pending
MaxQueries == 4

----------------------------------------------------------------------------
(* Program constants *)

BUCKET == "ldmt"

DefaultYearStart == 2003
DefaultYearEnd == 2015

\* -99999 of line 58
Sentinel == -99999
\* 0.000001 of line 58, in ticks of 1e-7
Negligible == 10
\* sleep(5)
PollInterval == 5
\* the default of status().get('progress', 0.0)
DefaultProgress == 0
\* random.randint(1, 1000000)
RandMin == 1
RandMax == 1000000

coefficients == << 4, 6, 9, 11, 14, 16, 19, 21, 24, 26, 31, 33, 36,
                   40, 43, 47, 50, 54, 59, 63, 66, 70, 75, 79, 84,
                   88, 93, 97, 102, 106, 111, 115, 120, 126, 131,
                   137, 142 >>

----------------------------------------------------------------------------
(* Helpers: optional values, dict.get *)

Absent == << >>
Some(v) == << v >>

\* d.get(key, default) on an optional key
Get(opt, default) == IF opt = Absent THEN default ELSE opt[1]

Abs(x) == IF x < 0 THEN -x ELSE x

Digit(d) == CASE d = 0 -> "0" [] d = 1 -> "1" [] d = 2 -> "2" [] d = 3 -> "3"
              [] d = 4 -> "4" [] d = 5 -> "5" [] d = 6 -> "6" [] d = 7 -> "7"
              [] d = 8 -> "8" [] d = 9 -> "9"

\* str(n) of a non-negative integer
RECURSIVE IntToStr(_)
IntToStr(n) == IF n < 10 THEN Digit(n) ELSE IntToStr(n \div 10) \o Digit(n % 10)

\* what "{}".format(x) prints for a string or None
FormatArg(opt) == IF opt = Absent THEN "None" ELSE opt[1]

----------------------------------------------------------------------------
(* Raster algebra of line 58, at one pixel *)

Pix(v) == [valid |-> TRUE, err |-> FALSE, v |-> v]
MaskedPix == [valid |-> FALSE, err |-> FALSE, v |-> 0]
ErrPix == [valid |-> FALSE, err |-> TRUE, v |-> 0]

\* mutant: the index taken as 1-based
ArrayGet_OneBased(arr, i) == IF i \in 1 .. Len(arr) THEN Pix(arr[i]) ELSE ErrPix

\* ee.Array(...).get([i]): the element at 0-based index i; the server reports an
\* error for an index outside the array
ArrayGet(arr, i) == IF i \in 0 .. (Len(arr) - 1) THEN Pix(arr[i + 1]) ELSE ErrPix

\* image.abs()
ImgAbs(a) == IF a.valid THEN Pix(Abs(a.v)) ELSE a

\* mutant: a strict comparison
ImgLte_Strict(a, b) ==
    IF a.err \/ b.err THEN ErrPix
    ELSE IF a.valid /\ b.valid THEN Pix(IF a.v < b.v THEN 1 ELSE 0)
    ELSE MaskedPix

\* image.lte(b): 1 where a <= b, 0 elsewhere, masked where either side is masked
ImgLte(a, b) ==
    IF a.err \/ b.err THEN ErrPix
    ELSE IF a.valid /\ b.valid THEN Pix(IF a.v <= b.v THEN 1 ELSE 0)
    ELSE MaskedPix

\* input.where(test, value): value where test is nonzero, input elsewhere;
\* the input is kept where the test is masked, and a masked input stays masked
ImgWhere(input, test, value) ==
    IF input.err \/ test.err THEN ErrPix
    ELSE IF ~input.valid \/ ~test.valid THEN input
    ELSE IF test.v # 0 THEN Pix(value)
    ELSE input

\* image.unmask(value)
ImgUnmask(a, value) == IF a.err \/ a.valid THEN a ELSE Pix(value)

\* mutant: the table indexed from period 3
Kendall_FromThree(p) == ArrayGet(coefficients, p - 3)

\* the critical value of line 52 for a period
Kendall(p) == ArrayGet(coefficients, p - 4)

\* the 'image' entry of line 58
MaskedTrend(scale, mk_trend, k) ==
    ImgUnmask(
        ImgWhere(
            ImgWhere(scale, ImgLte(ImgAbs(mk_trend), k), Sentinel),
            ImgLte(ImgAbs(scale), Pix(Negligible)), Sentinel),
        Sentinel)

\* mutant: the two format arguments swapped
OutputLocation_Swapped(bucket, id) ==
    "https://" \o FormatArg(id) \o ".storage.googleapis.com/" \o bucket \o ".tif"

\* the returned string of line 81
OutputLocation(bucket, id) ==
    "https://" \o bucket \o ".storage.googleapis.com/" \o FormatArg(id) \o ".tif"

----------------------------------------------------------------------------
(* The remote export job, as task.status() shows it *)

Pending == {"READY", "RUNNING"}
Finished == {"COMPLETED", "FAILED", "CANCELLED"}

\* the 'progress' key of a status: missing, or a fraction in hundredths
ProgressAnswers == {Absent, Some(50)}

\* states the remote job can move to (or stay in) from a pending state
Successors(s) ==
    IF s = "READY" THEN {"READY", "RUNNING", "FAILED", "CANCELLED"}
    ELSE {"RUNNING", "COMPLETED", "FAILED", "CANCELLED"}

\* the status queries among the calls made so far
StatusCalls == SelectSeq(calls, LAMBDA c : c.op = "status")
\* the progress reports among the calls made so far
ProgressCalls == SelectSeq(calls, LAMBDA c : c.op = "send_progress")
\* the waits among the calls made so far
SleepCalls == SelectSeq(calls, LAMBDA c : c.op = "sleep")

\* the model follows a job that is still pending for MaxQueries status queries
WithinBound == Len(StatusCalls) < MaxQueries \/ remote.state \notin Pending

----------------------------------------------------------------------------
(* The area of interest *)

\* the default polygon of line 92 (Senegal)
default_poly == "SEN"

\* util.get_coords(geojson): the region of a geometry, Absent when the
\* geometry cannot be converted (the call then raises MissingRegionError)
get_coords(g) == IF g = "unconvertible" THEN Absent ELSE Some(<< "coordinates", g >>)

----------------------------------------------------------------------------
(* Inputs *)

GeneratedInts == {RandMin, RandMax}

\* requests of the supervised runs: default years (period 13) or a 2-year period
SupervisedParams ==
    [ ENV : {Absent, Some("dev")},
      EXECUTION_ID : {Absent, Some("42")},
      year_start : {Absent},
      year_end : {Absent, Some(DefaultYearStart + 1)},
      geojson : {Absent, Some("unconvertible")} ]

SupervisedPixels == { [stat |-> Pix(45), slope |-> Pix(20000)] }

\* requests of the masking runs: every period from -1 to MaxSpan + 1
MaskParams ==
    [ ENV : {Absent},
      EXECUTION_ID : {Some("42")},
      year_start : {Absent},
      year_end : {Some(y) : y \in (DefaultYearStart - 2) .. (DefaultYearStart + MaxSpan)},
      geojson : {Absent} ]

MaxCoefficient == coefficients[Len(coefficients)]

Stats ==
    {MaskedPix} \cup
    {Pix(z) : z \in -(MaxCoefficient + StatMargin) .. (MaxCoefficient + StatMargin)}

Slopes ==
    {MaskedPix} \cup
    {Pix(x) : x \in {-MaxSlope, -(Negligible + 1), -Negligible, -1, 0, 1,
                     Negligible, Negligible + 1, 20000, MaxSlope}}

MaskPixels == [stat : Stats, slope : Slopes]

InitWith(P, X) ==
    /\ params \in P
    /\ pixel \in X
    /\ geojson = ""
    /\ pc = "run"
    /\ year_start = 0
    /\ year_end = 0
    /\ EXECUTION_ID = Absent
    /\ period = 0
    /\ kendall = ErrPix
    /\ export = Absent
    /\ task_state = ""
    /\ task_progress = 0
    /\ remote = [state |-> "UNSUBMITTED", progress |-> Absent]
    /\ calls = << >>
    /\ result = Absent

Init == InitWith(SupervisedParams, SupervisedPixels)

InitMask == InitWith(MaskParams, MaskPixels)

----------------------------------------------------------------------------
(* run, lines 83-96 *)

\* mutant: a caller-supplied id wins over the generated one
Run_PreferCallerId ==
    /\ pc = "run"
    /\ year_start' = Get(params.year_start, DefaultYearStart)
    /\ year_end' = Get(params.year_end, DefaultYearEnd)
    /\ IF params.ENV = Some("dev") /\ params.EXECUTION_ID = Absent
         THEN \E n \in GeneratedInts : EXECUTION_ID' = Some(IntToStr(n))
         ELSE EXECUTION_ID' = params.EXECUTION_ID
    /\ geojson' = Get(params.geojson, default_poly)
    /\ pc' = "l47"
    /\ UNCHANGED << params, pixel, period, kendall, export, task_state,
                    task_progress, remote, calls, result >>

Run ==
    /\ pc = "run"
    /\ year_start' = Get(params.year_start, DefaultYearStart)
    /\ year_end' = Get(params.year_end, DefaultYearEnd)
    /\ IF params.ENV = Some("dev")
         THEN \E n \in GeneratedInts : EXECUTION_ID' = Some(IntToStr(n))
         ELSE EXECUTION_ID' = params.EXECUTION_ID
    /\ geojson' = Get(params.geojson, default_poly)
    /\ pc' = "l47"
    /\ UNCHANGED << params, pixel, period, kendall, export, task_state,
                    task_progress, remote, calls, result >>

----------------------------------------------------------------------------
(* integral_trend, lines 47-81 *)

\* lines 47-52
ComputeKendall ==
    /\ pc = "l47"
    /\ period' = year_end - year_start + 1
    /\ kendall' = Kendall(year_end - year_start + 1)
    /\ pc' = "l57"
    /\ UNCHANGED << params, pixel, geojson, year_start, year_end, EXECUTION_ID, export,
                    task_state, task_progress, remote, calls, result >>

\* mutant: the region is not extracted while the dictionary is built
BuildExport_RegionUnchecked ==
    /\ pc = "l57"
    /\ export' = Some([ image |-> MaskedTrend(pixel.slope, pixel.stat, kendall),
                        description |-> EXECUTION_ID,
                        fileNamePrefix |-> EXECUTION_ID,
                        bucket |-> BUCKET,
                        region |-> << "geojson", geojson >> ])
    /\ pc' = "l68"
    /\ UNCHANGED << params, pixel, geojson, year_start, year_end, EXECUTION_ID, period,
                    kendall, task_state, task_progress, remote, calls, result >>

\* lines 57-65: the dictionary's values are evaluated in order, the region
\* last; an exception of util.get_coords ends the invocation
BuildExport ==
    /\ pc = "l57"
    /\ IF get_coords(geojson) = Absent
         THEN /\ pc' = "raised"
              /\ UNCHANGED export
         ELSE /\ export' = Some([ image |-> MaskedTrend(pixel.slope, pixel.stat, kendall),
                                  description |-> EXECUTION_ID,
                                  fileNamePrefix |-> EXECUTION_ID,
                                  bucket |-> BUCKET,
                                  region |-> get_coords(geojson)[1] ])
              /\ pc' = "l68"
    /\ UNCHANGED << params, pixel, geojson, year_start, year_end, EXECUTION_ID, period,
                    kendall, task_state, task_progress, remote, calls, result >>

\* line 68
CreateTask ==
    /\ pc = "l68"
    /\ calls' = Append(calls, [op |-> "create", arg |-> export[1]])
    /\ pc' = "l71"
    /\ UNCHANGED << params, pixel, geojson, year_start, year_end, EXECUTION_ID, period,
                    kendall, export, task_state, task_progress, remote, result >>

\* line 71
StartTask ==
    /\ pc = "l71"
    /\ calls' = Append(calls, [op |-> "start", arg |-> Absent])
    /\ remote' = [state |-> "READY", progress |-> Absent]
    /\ pc' = "l72"
    /\ UNCHANGED << params, pixel, geojson, year_start, year_end, EXECUTION_ID, period,
                    kendall, export, task_state, task_progress, result >>

\* mutant: the job is taken to be READY right after start
FirstState_AssumeReady ==
    /\ pc = "l72"
    /\ WithinBound
    /\ calls' = Append(calls, [op |-> "status", arg |-> remote])
    /\ task_state' = "READY"
    /\ pc' = "l73"
    /\ UNCHANGED << params, pixel, geojson, year_start, year_end, EXECUTION_ID, period,
                    kendall, export, task_progress, remote, result >>

\* line 72
FirstState ==
    /\ pc = "l72"
    /\ WithinBound
    /\ calls' = Append(calls, [op |-> "status", arg |-> remote])
    /\ task_state' = remote.state
    /\ pc' = "l73"
    /\ UNCHANGED << params, pixel, geojson, year_start, year_end, EXECUTION_ID, period,
                    kendall, export, task_progress, remote, result >>

\* mutant: the loop gives up after one progress report
LoopCondition_PollLimit ==
    (task_state = "READY" \/ task_state = "RUNNING") /\ Len(ProgressCalls) < 1

\* the condition of line 73
LoopCondition == task_state = "READY" \/ task_state = "RUNNING"

\* line 73
LoopTest ==
    /\ pc = "l73"
    /\ pc' = IF LoopCondition THEN "l74" ELSE "l81"
    /\ UNCHANGED << params, pixel, geojson, year_start, year_end, EXECUTION_ID, period,
                    kendall, export, task_state, task_progress, remote, calls,
                    result >>

\* mutant: a missing progress reported as complete
ReadProgress_DefaultOne ==
    /\ pc = "l74"
    /\ WithinBound
    /\ calls' = Append(calls, [op |-> "status", arg |-> remote])
    /\ task_progress' = Get(remote.progress, 100)
    /\ pc' = "l76"
    /\ UNCHANGED << params, pixel, geojson, year_start, year_end, EXECUTION_ID, period,
                    kendall, export, task_state, remote, result >>

\* line 74
ReadProgress ==
    /\ pc = "l74"
    /\ WithinBound
    /\ calls' = Append(calls, [op |-> "status", arg |-> remote])
    /\ task_progress' = Get(remote.progress, DefaultProgress)
    /\ pc' = "l76"
    /\ UNCHANGED << params, pixel, geojson, year_start, year_end, EXECUTION_ID, period,
                    kendall, export, task_state, remote, result >>

\* line 76
SendProgress ==
    /\ pc = "l76"
    /\ calls' = Append(calls, [op |-> "send_progress", arg |-> task_progress])
    /\ pc' = "l78"
    /\ UNCHANGED << params, pixel, geojson, year_start, year_end, EXECUTION_ID, period,
                    kendall, export, task_state, task_progress, remote, result >>

\* mutant: the state taken from the status already read at line 74
ReadState_SameSnapshot ==
    /\ pc = "l78"
    /\ task_state' = StatusCalls[Len(StatusCalls)].arg.state
    /\ pc' = "l79"
    /\ UNCHANGED << params, pixel, geojson, year_start, year_end, EXECUTION_ID, period,
                    kendall, export, task_progress, remote, calls, result >>

\* line 78
ReadState ==
    /\ pc = "l78"
    /\ WithinBound
    /\ calls' = Append(calls, [op |-> "status", arg |-> remote])
    /\ task_state' = remote.state
    /\ pc' = "l79"
    /\ UNCHANGED << params, pixel, geojson, year_start, year_end, EXECUTION_ID, period,
                    kendall, export, task_progress, remote, result >>

\* mutant: no wait once a finished state has been observed
Sleep_SkipWhenFinished ==
    /\ pc = "l79"
    /\ calls' = IF task_state \in Pending
                THEN Append(calls, [op |-> "sleep", arg |-> PollInterval])
                ELSE calls
    /\ pc' = "l73"
    /\ UNCHANGED << params, pixel, geojson, year_start, year_end, EXECUTION_ID, period,
                    kendall, export, task_state, task_progress, remote, result >>

\* mutant: a wait of one unit
Sleep_OneUnit ==
    /\ pc = "l79"
    /\ calls' = Append(calls, [op |-> "sleep", arg |-> 1])
    /\ pc' = "l73"
    /\ UNCHANGED << params, pixel, geojson, year_start, year_end, EXECUTION_ID, period,
                    kendall, export, task_state, task_progress, remote, result >>

\* line 79
Sleep ==
    /\ pc = "l79"
    /\ calls' = Append(calls, [op |-> "sleep", arg |-> PollInterval])
    /\ pc' = "l73"
    /\ UNCHANGED << params, pixel, geojson, year_start, year_end, EXECUTION_ID, period,
                    kendall, export, task_state, task_progress, remote, result >>

\* line 81
Return ==
    /\ pc = "l81"
    /\ result' = Some(OutputLocation(BUCKET, EXECUTION_ID))
    /\ pc' = "done"
    /\ UNCHANGED << params, pixel, geojson, year_start, year_end, EXECUTION_ID, period,
                    kendall, export, task_state, task_progress, remote, calls >>

\* the remote job moves on by itself once started
RemoteStep ==
    /\ remote.state \in Pending
    /\ \E s \in Successors(remote.state), p \in ProgressAnswers :
          remote' = [state |-> s, progress |-> p]
    /\ UNCHANGED << params, pixel, geojson, pc, year_start, year_end, EXECUTION_ID, period,
                    kendall, export, task_state, task_progress, calls, result >>

\* the steps of the program itself
Program ==
    \/ Run
    \/ ComputeKendall
    \/ BuildExport
    \/ CreateTask
    \/ StartTask
    \/ FirstState
    \/ LoopTest
    \/ ReadProgress
    \/ SendProgress
    \/ ReadState
    \/ Sleep
    \/ Return

Next == Program \/ RemoteStep

Spec == Init /\ [][Next]_vars

\* the interpreter keeps running the program while it has a step to take
FairSpec == Spec /\ WF_vars(Program)

\* the masking specification: the steps up to the export dictionary
NextMask == Run \/ ComputeKendall \/ BuildExport

SpecMask == InitMask /\ [][NextMask]_vars

----------------------------------------------------------------------------
(* Properties *)

\* the states answered by the status queries made so far, in order
Answers == [i \in 1 .. Len(StatusCalls) |-> StatusCalls[i].arg.state]

\* how many of the answers were READY or RUNNING
PendingAnswers == Cardinality({i \in 1 .. Len(Answers) : Answers[i] \in Pending})

\* the answers follow a script of pending statuses followed by COMPLETED,
\* one entry per status query, the last entry repeating
ScriptedToCompleted ==
    /\ Len(Answers) > PendingAnswers
    /\ \A i \in 1 .. Len(Answers) :
          IF i <= PendingAnswers THEN Answers[i] \in Pending
          ELSE Answers[i] = "COMPLETED"

\* the critical value has been looked up
LookedUp == pc \notin {"run", "l47"}

\* the export dictionary has been built
Built == export # Absent

\* C1: when the last observed status is FAILED the invocation ends without
\* returning an output location (it raises ExportFailedError instead), after
\* one progress report per pending status answered.
C1_FailedNeverReturns ==
    (pc = "done" /\ task_state = "FAILED") =>
        /\ result = Absent
        /\ Len(ProgressCalls) = PendingAnswers

\* C2: an output location is returned only if the last observed remote state
\* is COMPLETED.
C2_LocationOnlyWhenCompleted ==
    result # Absent => task_state = "COMPLETED"

\* C3 (as stated): for a script of n pending statuses followed by COMPLETED,
\* answered one entry per status query, exactly n progress reports have been
\* emitted when the location is returned.
C3_OneReportPerPendingStatus ==
    (result # Absent /\ ScriptedToCompleted) => Len(ProgressCalls) = PendingAnswers

\* C3 (amended): for such a script the supervisor emits exactly ceil(n / 2)
\* progress reports (each poll cycle consumes two entries of the script), all
\* of them before it returns the output location.
C3_ReportsPerScript ==
    (result # Absent /\ ScriptedToCompleted) =>
        Len(ProgressCalls) = (PendingAnswers + 1) \div 2

\* C3 witness: READY, RUNNING, RUNNING, COMPLETED gives 2 progress reports.
C3_Witness ==
    /\ result # Absent
    /\ Answers = << "READY", "RUNNING", "RUNNING", "COMPLETED", "COMPLETED" >>
    /\ Len(ProgressCalls) = 2

C6_ValuesAsStated ==
    LookedUp =>
        /\ period = 4 => kendall = Pix(4)
        /\ period = 7 => kendall = Pix(14)
        /\ period = 13 => kendall = Pix(40)

\* C6 (amended): the critical value is 4 for 4 years, 11 for 7 years and 26
\* for 13 years; with period 13, statistic 45 and slope 0.002 are retained and
\* statistic 26 is masked, and with period 7 a statistic of 10 is masked.
C6_ValuesOfTheTable ==
    /\ LookedUp =>
        /\ period = 4 => kendall = Pix(4)
        /\ period = 7 => kendall = Pix(11)
        /\ period = 13 => kendall = Pix(26)
    /\ Built =>
        /\ (period = 13 /\ pixel.stat = Pix(45) /\ pixel.slope = Pix(20000))
              => export[1].image = Pix(20000)
        /\ (period = 13 /\ pixel.stat = Pix(26) /\ pixel.slope.valid)
              => export[1].image = Pix(Sentinel)
        /\ (period = 7 /\ pixel.stat = Pix(10) /\ pixel.slope.valid)
              => export[1].image = Pix(Sentinel)

\* C6 witness: period 13, statistic 45, slope 0.002 is retained.
C6_Witness ==
    /\ Built /\ period = 13
    /\ pixel.stat = Pix(45) /\ pixel.slope = Pix(20000)
    /\ export[1].image = Pix(20000)

\* C7: with a period outside the table's domain no export job is created or
\* started, no status query is issued and no progress report is emitted.
C7_FailFast ==
    (LookedUp /\ kendall.err) => calls = << >>

\* what the location must be, written out for each execution id
ExpectedLocation ==
    CASE EXECUTION_ID = Some("42") -> "https://ldmt.storage.googleapis.com/42.tif"
      [] EXECUTION_ID = Some("1") -> "https://ldmt.storage.googleapis.com/1.tif"
      [] EXECUTION_ID = Some("1000000") -> "https://ldmt.storage.googleapis.com/1000000.tif"
      [] EXECUTION_ID = Absent -> "https://ldmt.storage.googleapis.com/None.tif"

\* C8: the returned location is exactly
\* https://ldmt.storage.googleapis.com/{executionId}.tif, whatever the
\* statuses, progress values and number of polls were.
C8_LocationOfExecutionId ==
    result # Absent => result = Some(ExpectedLocation)

\* C8 witness: execution id 42 returned after at least one poll cycle.
C8_Witness ==
    /\ result = Some("https://ldmt.storage.googleapis.com/42.tif")
    /\ EXECUTION_ID = Some("42")
    /\ Len(ProgressCalls) >= 1

\* C9: a job that ends CANCELLED gives an outcome that differs from the
\* location returned for a COMPLETED job.
C9_CancelledIsDistinct ==
    (pc = "done" /\ task_state = "CANCELLED") =>
        result # Some(OutputLocation(BUCKET, EXECUTION_ID))

\* C10: the loop is left only once a state other than READY and RUNNING has
\* been observed, however many polls that takes, and once the remote job has
\* reached a finished state the invocation eventually ends.
C10_PollsUntilFinished ==
    /\ [](pc \in {"l81", "done"} => task_state \notin Pending)
    /\ (remote.state \in Finished) ~> (pc = "done")

\* C10 witness: the invocation ended after MaxQueries or more status queries.
C10_Witness ==
    /\ pc = "done"
    /\ Len(StatusCalls) >= MaxQueries
    /\ remote.state \in Finished

\* the export jobs requested so far
CreateCalls == SelectSeq(calls, LAMBDA c : c.op = "create")

\* C11: the execution id is one value per invocation: the caller's outside
\* dev, the decimal string of a generated integer in dev (the caller's id is
\* then ignored); the export's file name prefix and the returned location
\* both carry it.
C11_OneExecutionId ==
    /\ pc # "run" =>
          IF params.ENV = Some("dev")
          THEN EXECUTION_ID \in {Some("1"), Some("1000000")}
          ELSE EXECUTION_ID = params.EXECUTION_ID
    /\ \A i \in 1 .. Len(CreateCalls) :
          /\ CreateCalls[i].arg.fileNamePrefix = EXECUTION_ID
          /\ CreateCalls[i].arg.description = EXECUTION_ID
    /\ result # Absent =>
          /\ Len(CreateCalls) = 1
          /\ result = Some("https://ldmt.storage.googleapis.com/"
                           \o FormatArg(CreateCalls[1].arg.fileNamePrefix) \o ".tif")

\* C11 witness: in dev the caller's id 42 is ignored and the generated id
\* 1000000 names both the export and the returned location.
C11_Witness ==
    /\ params.ENV = Some("dev")
    /\ params.EXECUTION_ID = Some("42")
    /\ Len(CreateCalls) = 1
    /\ CreateCalls[1].arg.fileNamePrefix = Some("1000000")
    /\ result = Some("https://ldmt.storage.googleapis.com/1000000.tif")

\* the positions in calls of the status queries that read the state: the
\* first status query, and each one that follows a progress report
StateReads ==
    {i \in 1 .. Len(calls) :
        /\ calls[i].op = "status"
        /\ i > 1
        /\ calls[i - 1].op \in {"start", "send_progress"}}

\* the state reads that observed READY or RUNNING
PendingStateReads == {i \in StateReads : calls[i].arg.state \in Pending}

\* 1 while the latest pending observation has not been reported yet
Unreported == IF pc \in {"l73", "l74", "l76", "l79"} /\ task_state \in Pending THEN 1 ELSE 0

\* C12: each poll that observes READY or RUNNING forwards exactly one value,
\* the progress of the status it read, or 0 when that status carries none,
\* and no value is forwarded on any other occasion.
C12_OneProgressPerPendingPoll ==
    /\ \A i \in 1 .. Len(calls) :
          calls[i].op = "send_progress" =>
              /\ i > 1
              /\ calls[i - 1].op = "status"
              /\ calls[i].arg = IF calls[i - 1].arg.progress = << >> THEN 0
                                ELSE calls[i - 1].arg.progress[1]
    /\ Len(ProgressCalls) + Unreported = Cardinality(PendingStateReads)

\* C12 witness: one report forwards the remote's 50 hundredths, another
\* forwards 0 for a status without progress.
C12_Witness ==
    /\ pc = "done"
    /\ \E i, j \in 2 .. Len(calls) :
          /\ calls[i].op = "send_progress" /\ calls[i].arg = 50
          /\ calls[j].op = "send_progress" /\ calls[j].arg = 0
          /\ calls[j - 1].arg.progress = << >>

\* the pairs of positions in calls of two consecutive status queries
ConsecutiveStatus ==
    {p \in (1 .. Len(calls)) \X (1 .. Len(calls)) :
        /\ p[1] < p[2]
        /\ calls[p[1]].op = "status" /\ calls[p[2]].op = "status"
        /\ \A k \in (p[1] + 1) .. (p[2] - 1) : calls[k].op # "status"}

\* the waits made between two positions in calls
WaitsBetween(i, j) == {k \in (i + 1) .. (j - 1) : calls[k].op = "sleep"}

\* C13 (as stated): between any two consecutive status queries there is
\* exactly one wait, of 5 units.
C13_OneWaitBetweenQueries ==
    \A p \in ConsecutiveStatus :
        /\ Cardinality(WaitsBetween(p[1], p[2])) = 1
        /\ \A k \in WaitsBetween(p[1], p[2]) : calls[k].arg = 5

\* C13 (amended): every wait lasts 5 units; there is exactly one wait between
\* the state read that ends a poll cycle and the progress read of the next
\* cycle, and no wait between the other consecutive status queries (the
\* initial state query and the first progress read, the progress read and
\* the state read of one cycle).
C13_OneWaitBetweenCycles ==
    /\ \A k \in 1 .. Len(calls) : calls[k].op = "sleep" => calls[k].arg = 5
    /\ \A p \in ConsecutiveStatus :
          Cardinality(WaitsBetween(p[1], p[2])) =
              IF calls[p[1] - 1].op = "send_progress" THEN 1 ELSE 0

\* C13 witness: two full cycles, hence status queries with and without a
\* wait between them.
C13_Witness ==
    /\ pc = "done"
    /\ Len(SleepCalls) = 2
    /\ \E p \in ConsecutiveStatus : WaitsBetween(p[1], p[2]) = {}
    /\ \E p \in ConsecutiveStatus : WaitsBetween(p[1], p[2]) # {}

\* C14: the region is extracted before the export job is requested: when the
\* conversion fails the invocation ends with no export job created or
\* started, no status query and no progress report; a job that is requested
\* carries the extracted region.
C14_RegionBeforeSubmission ==
    /\ (pc # "run" /\ get_coords(geojson) = Absent) =>
          /\ calls = << >>
          /\ result = Absent
          /\ remote.state = "UNSUBMITTED"
          /\ pc \in {"l47", "l57", "raised"}
    /\ \A i \in 1 .. Len(CreateCalls) :
          CreateCalls[i].arg.region = << "coordinates", geojson >>

\* C14 witness: the conversion failed and the invocation has been aborted.
C14_Witness ==
    /\ pc = "raised"
    /\ geojson = "unconvertible"
    /\ calls = << >>

\* C15: a pixel whose statistic or slope is missing holds the sentinel in the
\* masked raster, whatever the other value is.
C15_MissingIsSentinel ==
    (Built /\ ~kendall.err /\ (~pixel.stat.valid \/ ~pixel.slope.valid)) =>
        export[1].image = Pix(Sentinel)

\* C16: each poll cycle issues two status queries, one for the progress and
\* then one for the state, so that 1 + 2n queries have been issued when n
\* reports have been emitted and the loop is at its head or left.
C16_TwoQueriesPerCycle ==
    /\ pc \in {"l73", "l81", "done"} =>
          Len(StatusCalls) = 1 + 2 * Len(ProgressCalls)
    /\ \A i \in 1 .. Len(calls) :
          calls[i].op = "send_progress" =>
              /\ i > 1
              /\ calls[i - 1].op = "status"
              /\ i < Len(calls) => calls[i + 1].op = "status"

\* C16 witness: in one cycle the progress and the state come from different
\* snapshots, and a progress is read and forwarded from a snapshot of a
\* finished job.
C16_Witness ==
    /\ pc = "done"
    /\ \E i \in 2 .. (Len(calls) - 1) :
          /\ calls[i].op = "send_progress"
          /\ calls[i - 1].arg # calls[i + 1].arg
    /\ \E j \in 2 .. Len(calls) :
          /\ calls[j].op = "send_progress"
          /\ calls[j - 1].arg.state \in Finished

\* C17: there are as many waits as progress reports, each wait directly
\* follows its cycle's state read, and once a cycle has run the supervisor
\* waits 5 units after observing the state that ends the loop, before it
\* returns.
C17_WaitAfterEveryStateRead ==
    /\ pc \in {"l73", "l74", "l81", "done"} => Len(SleepCalls) = Len(ProgressCalls)
    /\ \A i \in 1 .. Len(calls) :
          calls[i].op = "sleep" =>
              /\ i > 2
              /\ calls[i - 1].op = "status"
              /\ calls[i - 2].op = "send_progress"
    /\ (pc \in {"l81", "done"} /\ Len(ProgressCalls) >= 1) =>
          /\ calls[Len(calls)] = [op |-> "sleep", arg |-> 5]
          /\ calls[Len(calls) - 1].op = "status"
          /\ calls[Len(calls) - 1].arg.state \notin Pending
          /\ calls[Len(calls) - 1].arg.state = task_state

\* C17 witness: a location is returned after one cycle whose state read saw
\* COMPLETED, with the wait made after it.
C17_Witness ==
    /\ result # Absent
    /\ Len(ProgressCalls) = 1
    /\ calls[Len(calls)].op = "sleep"
    /\ calls[Len(calls) - 1].arg.state = "COMPLETED"

\* the starts of the export job among the calls made so far
StartCalls == SelectSeq(calls, LAMBDA c : c.op = "start")

\* C18: the job is created and started exactly once, before any status
\* query, and a first status other than READY or RUNNING ends the invocation
\* with that single query, no progress report and no wait.
C18_StartedOnceAnyFirstState ==
    /\ Len(CreateCalls) <= 1 /\ Len(StartCalls) <= 1
    /\ pc \in {"l72", "l73", "l74", "l76", "l78", "l79", "l81", "done"} =>
          /\ Len(calls) >= 2
          /\ calls[1].op = "create"
          /\ calls[2].op = "start"
          /\ Len(StartCalls) = 1
    /\ (Len(StatusCalls) >= 1 /\ StatusCalls[1].arg.state \notin Pending) =>
          /\ pc \in {"l73", "l81", "done"}
          /\ Len(StatusCalls) = 1
          /\ Len(ProgressCalls) = 0
          /\ Len(SleepCalls) = 0

\* C18 witness: the first status query reports FAILED and the invocation
\* ends after create, start and that one query.
C18_Witness ==
    /\ pc = "done"
    /\ Len(calls) = 3
    /\ calls[3].op = "status"
    /\ calls[3].arg.state = "FAILED"

============================================================================
